---- MODULE Spec2Model ----
(***************************************************************************)
(* State-machine model of packit/config/common_package_config.py:          *)
(*   _construct_dist_git_instance, CommonPackageConfig (construction, the   *)
(*   derived properties, targets, spec_source_id_number and                 *)
(*   get_all_files_to_sync) and MultiplePackages.                           *)
(*                                                                          *)
(* Python values: strings are TLA+ strings, lists are sequences, objects    *)
(* are records.  None is the reserved string None below (no model string    *)
(* equals it); an Optional[list] argument is NoneList or SomeList(l); a      *)
(* dict is the sequence of its key/value entries in insertion order.        *)
(***************************************************************************)
EXTENDS Naturals, Sequences, FiniteSets, TLC

VARIABLES
    environ,    \* os.environ: DISTGIT_URL, DISTGIT_NAMESPACE
    args,       \* the keyword arguments CommonPackageConfig.__init__ is called with
    config,     \* the CommonPackageConfig object (NoObject before/without construction)
    ret,        \* outcome of the last operation: what it returned or raised
    firstUrl,   \* the value the first read of downstream_project_url returned
    packages,   \* the mapping MultiplePackages.__init__ is called with
    collection  \* the MultiplePackages object (NoObject before/without construction)

vars == <<environ, args, config, ret, firstUrl, packages, collection>>

\* what the operations of a CommonPackageConfig leave alone
mpvars == <<packages, collection>>

\* what the operations of a MultiplePackages leave alone
cfgvars == <<environ, args, config, firstUrl>>

----------------------------------------------------------------------------
(* Python values *)

None == "<None>"

\* bool(s) for an Optional[str]
Truthy(s) == s # None /\ s # ""

\* str(s) as an f-string renders it
Fmt(s) == IF s = None THEN "None" ELSE s

NoneList == [is_none |-> TRUE, list |-> <<>>]
SomeList(l) == [is_none |-> FALSE, list |-> l]

\* "l or []" for an Optional[list]
OrEmpty(l) == IF l.is_none THEN <<>> ELSE l.list

NoObject == [exists |-> FALSE]

Returned(op, v) == [op |-> op, raised |-> "none", value |-> v]
Raised(op, exc, v) == [op |-> op, raised |-> exc, value |-> v]

RECURSIVE LastSlash(_, _)
LastSlash(s, i) ==
    IF i = 0 THEN 0
    ELSE IF SubSeq(s, i, i) = "/" THEN i ELSE LastSlash(s, i - 1)

\* os.path.basename
basename(p) == SubSeq(p, LastSlash(p, Len(p)) + 1, Len(p))

----------------------------------------------------------------------------
(* packit.constants.DISTGIT_INSTANCES and packit.dist_git_instance *)

DistGitInstance(url, namespace) == [url |-> url, namespace |-> namespace]

from_url_and_namespace(url, namespace) == DistGitInstance(url, namespace)

DISTGIT_INSTANCES ==
    [tool \in {"fedpkg", "centpkg"} |->
        IF tool = "fedpkg"
        THEN DistGitInstance("https://src.fedoraproject.org/", "rpms")
        ELSE DistGitInstance("https://gitlab.com/", "redhat/centos-stream/rpms")]

getenv(name) == environ[name]

----------------------------------------------------------------------------
(* _construct_dist_git_instance: the value returned, or the KeyError raised *)
(* by the registry subscript                                                *)

_construct_dist_git_instance_ToolBeforeUrl(base_url, namespace, pkg_tool) ==
    IF Truthy(pkg_tool)
    THEN IF pkg_tool \in DOMAIN DISTGIT_INSTANCES
         THEN Returned("_construct_dist_git_instance", DISTGIT_INSTANCES[pkg_tool])
         ELSE Raised("_construct_dist_git_instance", "KeyError", pkg_tool)
    ELSE IF base_url # None
    THEN Returned("_construct_dist_git_instance",
                  from_url_and_namespace(base_url, namespace))
    ELSE IF getenv("DISTGIT_URL") # None
    THEN Returned("_construct_dist_git_instance",
                  from_url_and_namespace(getenv("DISTGIT_URL"),
                                         getenv("DISTGIT_NAMESPACE")))
    ELSE Returned("_construct_dist_git_instance", DISTGIT_INSTANCES["fedpkg"])

_construct_dist_git_instance_UnknownToolDefault(base_url, namespace, pkg_tool) ==
    IF base_url # None
    THEN Returned("_construct_dist_git_instance",
                  from_url_and_namespace(base_url, namespace))
    ELSE IF Truthy(pkg_tool) /\ pkg_tool \in DOMAIN DISTGIT_INSTANCES
    THEN Returned("_construct_dist_git_instance", DISTGIT_INSTANCES[pkg_tool])
    ELSE IF getenv("DISTGIT_URL") # None
    THEN Returned("_construct_dist_git_instance",
                  from_url_and_namespace(getenv("DISTGIT_URL"),
                                         getenv("DISTGIT_NAMESPACE")))
    ELSE Returned("_construct_dist_git_instance", DISTGIT_INSTANCES["fedpkg"])

_construct_dist_git_instance(base_url, namespace, pkg_tool) ==
    IF base_url # None
    THEN Returned("_construct_dist_git_instance",
                  from_url_and_namespace(base_url, namespace))
    ELSE IF Truthy(pkg_tool)
    THEN IF pkg_tool \in DOMAIN DISTGIT_INSTANCES
         THEN Returned("_construct_dist_git_instance", DISTGIT_INSTANCES[pkg_tool])
         ELSE Raised("_construct_dist_git_instance", "KeyError", pkg_tool)
    ELSE IF getenv("DISTGIT_URL") # None
    THEN Returned("_construct_dist_git_instance",
                  from_url_and_namespace(getenv("DISTGIT_URL"),
                                         getenv("DISTGIT_NAMESPACE")))
    ELSE Returned("_construct_dist_git_instance", DISTGIT_INSTANCES["fedpkg"])

----------------------------------------------------------------------------
(* CommonPackageConfig.__init__ *)

\* the _targets argument: None, a list of target names, or a mapping from
\* target name to options
NoTargets == [kind |-> "none", list |-> <<>>, dict |-> <<>>]
TargetList(l) == [kind |-> "list", list |-> l, dict |-> <<>>]
TargetDict(d) == [kind |-> "dict", list |-> <<>>, dict |-> d]

\* {key: {} for key in l}: a repeated key keeps its first position
RECURSIVE dict_of_keys(_)
dict_of_keys(l) ==
    IF l = <<>> THEN <<>>
    ELSE LET d == dict_of_keys(SubSeq(l, 1, Len(l) - 1))
             k == l[Len(l)]
         IN  IF \E i \in 1..Len(d) : d[i].key = k THEN d
             ELSE Append(d, [key |-> k, value |-> <<>>])

\* the mapping __init__ stores in self._targets
normalize_targets(_targets) ==
    IF _targets.kind = "list" THEN dict_of_keys(_targets.list)
    ELSE IF _targets.kind = "dict" /\ _targets.dict # <<>> THEN _targets.dict
    ELSE <<>>

DefaultArgs ==
    [config_file_path        |-> None,
     specfile_path           |-> None,
     synced_files            |-> NoneList,
     files_to_sync           |-> NoneList,
     dist_git_namespace      |-> None,
     upstream_package_name   |-> None,
     downstream_project_url  |-> None,
     downstream_package_name |-> None,
     dist_git_base_url       |-> None,
     pkg_tool                |-> None,
     _targets                |-> NoTargets,
     spec_source_id          |-> "Source0"]

\* the object __init__ builds once the dist-git instance is resolved
NewConfig(a, instance) ==
    [config_file_path        |-> a.config_file_path,
     specfile_path           |-> a.specfile_path,
     _files_to_sync          |-> OrEmpty(a.files_to_sync),
     _files_to_sync_used     |-> ~a.files_to_sync.is_none,
     synced_files            |-> OrEmpty(a.synced_files),
     upstream_package_name   |-> a.upstream_package_name,
     downstream_package_name |-> a.downstream_package_name,
     _downstream_project_url |-> a.downstream_project_url,
     dist_git_instance       |-> instance,
     pkg_tool                |-> a.pkg_tool,
     _targets                |-> normalize_targets(a._targets),
     spec_source_id          |-> a.spec_source_id]

Construct ==
    /\ config = NoObject
    /\ ret.op = "start"
    /\ LET r == _construct_dist_git_instance(args.dist_git_base_url,
                                             args.dist_git_namespace,
                                             args.pkg_tool)
       IN  IF r.raised = "none"
           THEN /\ config' = NewConfig(args, r.value)
                /\ ret' = Returned("__init__", None)
           ELSE /\ config' = config
                /\ ret' = Raised("__init__", r.raised, r.value)
    /\ UNCHANGED <<environ, args, firstUrl, mpvars>>


----------------------------------------------------------------------------
(* CommonPackageConfig: derived properties *)

dist_git_base_url(c) == c.dist_git_instance.url

dist_git_namespace(c) == c.dist_git_instance.namespace

files_to_sync_IgnoreUsedFlag(c) ==
    IF c._files_to_sync # <<>> THEN c._files_to_sync
    ELSE IF c.synced_files # <<>> THEN c.synced_files
    ELSE <<>>

files_to_sync(c) ==
    IF c._files_to_sync_used THEN c._files_to_sync
    ELSE IF c.synced_files # <<>> THEN c.synced_files
    ELSE <<>>

dist_git_package_url_NoSeparator(c) ==
    IF Truthy(c.downstream_package_name)
    THEN Fmt(dist_git_base_url(c)) \o Fmt(dist_git_namespace(c))
         \o Fmt(c.downstream_package_name) \o ".git"
    ELSE None

dist_git_package_url(c) ==
    IF Truthy(c.downstream_package_name)
    THEN Fmt(dist_git_base_url(c)) \o Fmt(dist_git_namespace(c)) \o "/"
         \o Fmt(c.downstream_package_name) \o ".git"
    ELSE None

\* the object as a read of downstream_project_url leaves it; the read returns
\* its _downstream_project_url
downstream_project_url_Recompute(c) ==
    [c EXCEPT !._downstream_project_url = dist_git_package_url(c)]

downstream_project_url(c) ==
    IF ~Truthy(c._downstream_project_url)
    THEN [c EXCEPT !._downstream_project_url = dist_git_package_url(c)]
    ELSE c

----------------------------------------------------------------------------
(* packit.sync: SyncFilesItem and iter_srcs *)

SyncFilesItem(src, dest) == [src |-> src, dest |-> dest]

RECURSIVE iter_srcs(_)
iter_srcs(files) ==
    IF files = <<>> THEN <<>> ELSE Head(files).src \o iter_srcs(Tail(files))

\* x in <iterable>
In(x, seq) == \E i \in 1..Len(seq) : seq[i] = x

----------------------------------------------------------------------------
(* CommonPackageConfig.get_specfile_sync_files_item, get_all_files_to_sync *)

get_specfile_sync_files_item(c, from_downstream) ==
    IF ~Truthy(c.downstream_package_name) /\ c.specfile_path = None
    THEN Raised("get_specfile_sync_files_item", "TypeError", None)
    ELSE LET upstream_specfile_path == c.specfile_path
             downstream_specfile_path ==
                 IF Truthy(c.downstream_package_name)
                 THEN c.downstream_package_name \o ".spec"
                 ELSE basename(upstream_specfile_path)
         IN  Returned("get_specfile_sync_files_item",
                      SyncFilesItem(
                          <<IF from_downstream THEN downstream_specfile_path
                                               ELSE upstream_specfile_path>>,
                          IF from_downstream THEN upstream_specfile_path
                                             ELSE downstream_specfile_path))

\* [ret: what the call returns or raises, obj: the object as the call leaves it].
\* "files" is the list files_to_sync returned: self.synced_files itself when that
\* is non-empty and the new option is unused, so the appends land in the object.
get_all_files_to_sync_AlwaysAdd(c) ==
    LET files  == files_to_sync(c)
        item   == get_specfile_sync_files_item(c, FALSE)
        files1 == IF ~In(c.specfile_path, iter_srcs(files)) /\ item.raised = "none"
                  THEN Append(files, item.value) ELSE files
        files2 == IF Truthy(c.config_file_path)
                     /\ ~In(c.config_file_path, iter_srcs(files1))
                  THEN Append(files1, SyncFilesItem(<<c.config_file_path>>,
                                                    c.config_file_path))
                  ELSE files1
    IN  [ret |-> Returned("get_all_files_to_sync", files2), obj |-> c]

get_all_files_to_sync_NoMembershipTest(c) ==
    LET files  == files_to_sync(c)
        item   == get_specfile_sync_files_item(c, FALSE)
        files1 == IF item.raised = "none" THEN Append(files, item.value) ELSE files
        files2 == IF Truthy(c.config_file_path)
                  THEN Append(files1, SyncFilesItem(<<c.config_file_path>>,
                                                    c.config_file_path))
                  ELSE files1
    IN  IF c._files_to_sync_used
        THEN [ret |-> Returned("get_all_files_to_sync", files), obj |-> c]
        ELSE [ret |-> Returned("get_all_files_to_sync", files2), obj |-> c]

get_all_files_to_sync(c) ==
    LET files    == files_to_sync(c)
        aliased  == ~c._files_to_sync_used /\ c.synced_files # <<>>
        needSpec == ~In(c.specfile_path, iter_srcs(files))
        item     == get_specfile_sync_files_item(c, FALSE)
        files1   == IF needSpec THEN Append(files, item.value) ELSE files
        needConf == /\ Truthy(c.config_file_path)
                    /\ ~In(c.config_file_path, iter_srcs(files1))
        files2   == IF needConf
                    THEN Append(files1, SyncFilesItem(<<c.config_file_path>>,
                                                      c.config_file_path))
                    ELSE files1
    IN  IF c._files_to_sync_used
        THEN [ret |-> Returned("get_all_files_to_sync", files), obj |-> c]
        ELSE IF needSpec /\ item.raised # "none"
        THEN [ret |-> Raised("get_all_files_to_sync", item.raised, None), obj |-> c]
        ELSE [ret |-> Returned("get_all_files_to_sync", files2),
              obj |-> IF aliased THEN [c EXCEPT !.synced_files = files2] ELSE c]

----------------------------------------------------------------------------
(* Operations on a constructed CommonPackageConfig *)

ReadDistGitBaseUrl ==
    /\ config # NoObject
    /\ ret' = Returned("dist_git_base_url", dist_git_base_url(config))
    /\ UNCHANGED <<environ, args, config, firstUrl, mpvars>>

ReadDistGitNamespace ==
    /\ config # NoObject
    /\ ret' = Returned("dist_git_namespace", dist_git_namespace(config))
    /\ UNCHANGED <<environ, args, config, firstUrl, mpvars>>

ReadDistGitPackageUrl ==
    /\ config # NoObject
    /\ ret' = Returned("dist_git_package_url", dist_git_package_url(config))
    /\ UNCHANGED <<environ, args, config, firstUrl, mpvars>>

ReadDownstreamProjectUrl ==
    /\ config # NoObject
    /\ config' = downstream_project_url(config)
    /\ ret' = Returned("downstream_project_url", config'._downstream_project_url)
    /\ firstUrl' = IF firstUrl.seen THEN firstUrl
                   ELSE [seen |-> TRUE, value |-> config'._downstream_project_url]
    /\ UNCHANGED <<environ, args, mpvars>>

ReadFilesToSync ==
    /\ config # NoObject
    /\ ret' = Returned("files_to_sync", files_to_sync(config))
    /\ UNCHANGED <<environ, args, config, firstUrl, mpvars>>

GetAllFilesToSync ==
    /\ config # NoObject
    /\ LET r == get_all_files_to_sync(config)
       IN  /\ ret' = r.ret
           /\ config' = r.obj
    /\ UNCHANGED <<environ, args, firstUrl, mpvars>>

\* config.downstream_package_name = v, by a later pipeline stage
SetDownstreamPackageName(v) ==
    /\ config # NoObject
    /\ config' = [config EXCEPT !.downstream_package_name = v]
    /\ ret' = Returned("setattr", None)
    /\ UNCHANGED <<environ, args, firstUrl, mpvars>>

\* config.pkg_tool = v
SetPkgTool_Reresolve(v) ==
    /\ config # NoObject
    /\ LET r == _construct_dist_git_instance(args.dist_git_base_url,
                                             args.dist_git_namespace, v)
       IN  config' = [config EXCEPT !.pkg_tool = v,
                                    !.dist_git_instance =
                                        IF r.raised = "none" THEN r.value ELSE @]
    /\ ret' = Returned("setattr", None)
    /\ UNCHANGED <<environ, args, firstUrl, mpvars>>

SetPkgTool(v) ==
    /\ config # NoObject
    /\ config' = [config EXCEPT !.pkg_tool = v]
    /\ ret' = Returned("setattr", None)
    /\ UNCHANGED <<environ, args, firstUrl, mpvars>>

\* the process environment changes after construction
SetEnv(name, v) ==
    /\ config # NoObject
    /\ environ[name] # v
    /\ environ' = [environ EXCEPT ![name] = v]
    /\ ret' = Returned("setenv", None)
    /\ UNCHANGED <<args, config, firstUrl, mpvars>>

----------------------------------------------------------------------------
(* Python's dict (insertion-ordered: a sequence of key/value entries) and   *)
(* getattr/setattr on a CommonPackageConfig                                 *)

Keys(d) == {d[i].key : i \in 1..Len(d)}

\* d[k], for k in d
dict_get(d, k) == d[CHOOSE i \in 1..Len(d) : d[i].key = k].value

\* d with the value under k replaced: what a write to the object d[k] makes of d
dict_put(d, k, v) ==
    [i \in 1..Len(d) |-> IF d[i].key = k THEN [key |-> k, value |-> v] ELSE d[i]]

\* the properties of CommonPackageConfig (no setter) that getattr computes here
ReadOnlyProperties ==
    {"dist_git_base_url", "dist_git_namespace", "dist_git_package_url", "files_to_sync"}

getattr(package, name) ==
    IF name \in DOMAIN package THEN Returned("getattr", package[name])
    ELSE IF name = "dist_git_base_url"
    THEN Returned("getattr", dist_git_base_url(package))
    ELSE IF name = "dist_git_namespace"
    THEN Returned("getattr", dist_git_namespace(package))
    ELSE IF name = "dist_git_package_url"
    THEN Returned("getattr", dist_git_package_url(package))
    ELSE IF name = "files_to_sync"
    THEN Returned("getattr", files_to_sync(package))
    ELSE Raised("getattr", "AttributeError",
                "'CommonPackageConfig' object has no attribute '" \o name \o "'")

\* [ret: the outcome, obj: the package as the assignment leaves it]
setattr(package, name, value) ==
    IF name \in ReadOnlyProperties
    THEN [ret |-> Raised("setattr", "AttributeError", "can't set attribute"),
          obj |-> package]
    ELSE [ret |-> Returned("setattr", None),
          obj |-> [n \in DOMAIN package \cup {name} |->
                      IF n = name THEN value ELSE package[n]]]

----------------------------------------------------------------------------
(* CommonPackageConfig: targets_dict and targets, and the mapping           *)
(* targets_dict hands out, which is self._targets itself                    *)

\* d[k] = v
dict_setitem(d, k, v) ==
    IF k \in Keys(d) THEN dict_put(d, k, v)
    ELSE Append(d, [key |-> k, value |-> v])

\* del d[k], for k in d
dict_delitem(d, k) == SelectSeq(d, LAMBDA e : e.key # k)

targets_dict(c) == c._targets

targets_AsConstructed(c) == Keys(normalize_targets(args._targets))

targets(c) == Keys(c._targets)

ReadTargetsDict ==
    /\ config # NoObject
    /\ ret' = Returned("targets_dict", targets_dict(config))
    /\ UNCHANGED <<environ, args, config, firstUrl, mpvars>>

ReadTargets ==
    /\ config # NoObject
    /\ ret' = Returned("targets", targets(config))
    /\ UNCHANGED <<environ, args, config, firstUrl, mpvars>>

\* config.targets_dict[k] = v
TargetsDictSetItem(k, v) ==
    /\ config # NoObject
    /\ config' = [config EXCEPT !._targets = dict_setitem(targets_dict(config), k, v)]
    /\ ret' = Returned("targets_dict.__setitem__", None)
    /\ UNCHANGED <<environ, args, firstUrl, mpvars>>

\* del config.targets_dict[k]
TargetsDictDelItem(k) ==
    /\ config # NoObject
    /\ k \in Keys(targets_dict(config))
    /\ config' = [config EXCEPT !._targets = dict_delitem(targets_dict(config), k)]
    /\ ret' = Returned("targets_dict.__delitem__", None)
    /\ UNCHANGED <<environ, args, firstUrl, mpvars>>

----------------------------------------------------------------------------
(* CommonPackageConfig.spec_source_id_number: re.split, next(iter()), int   *)

Digits == "0123456789"

\* the pattern \d, on the one-character string ch
IsDigit(ch) == \E d \in 1..Len(Digits) : SubSeq(Digits, d, d) = ch

\* the last index of the longest stretch of s from i on whose characters are
\* all digits (digit = TRUE) or all not digits; i - 1 when it is empty
RECURSIVE RunEnd(_, _, _)
RunEnd(s, i, digit) ==
    IF i <= Len(s) /\ IsDigit(SubSeq(s, i, i)) = digit
    THEN RunEnd(s, i + 1, digit)
    ELSE i - 1

\* split(r"(\d+)", s) from index i on: the text up to the next match, then the
\* match (the pattern's group) and the split of what follows it
RECURSIVE split_from(_, _)
split_from(s, i) ==
    LET j == RunEnd(s, i, FALSE)
        k == RunEnd(s, j + 1, TRUE)
    IN  IF k = j THEN <<SubSeq(s, i, j)>>
        ELSE <<SubSeq(s, i, j), SubSeq(s, j + 1, k)>> \o split_from(s, k + 1)

split(s) == split_from(s, 1)

\* split(r"(\d)", s): every digit is a match of its own
RECURSIVE split_each_digit_from(_, _)
split_each_digit_from(s, i) ==
    LET j == RunEnd(s, i, FALSE)
    IN  IF j = Len(s) THEN <<SubSeq(s, i, j)>>
        ELSE <<SubSeq(s, i, j), SubSeq(s, j + 1, j + 1)>>
             \o split_each_digit_from(s, j + 2)

\* int(t) for a string t of decimal digits
RECURSIVE int(_)
int(t) ==
    IF Len(t) = 0 THEN 0
    ELSE LET last == SubSeq(t, Len(t), Len(t))
         IN  10 * int(SubSeq(t, 1, Len(t) - 1))
             + (CHOOSE d \in 0..9 : SubSeq(Digits, d + 1, d + 1) = last)

\* int() of next(iter(parts), 0), parts being split(...)[1:]; int of a string
\* that is no number raises ValueError
int_of_first(parts) ==
    IF parts = <<>> THEN Returned("spec_source_id_number", 0)
    ELSE IF Len(parts[1]) > 0 /\ RunEnd(parts[1], 1, TRUE) = Len(parts[1])
    THEN Returned("spec_source_id_number", int(parts[1]))
    ELSE Raised("spec_source_id_number", "ValueError", 0)

spec_source_id_number_EachDigit(c) ==
    int_of_first(Tail(split_each_digit_from(c.spec_source_id, 1)))

spec_source_id_number(c) == int_of_first(Tail(split(c.spec_source_id)))

ReadSpecSourceIdNumber ==
    /\ config # NoObject
    /\ ret' = spec_source_id_number(config)
    /\ UNCHANGED <<environ, args, config, firstUrl, mpvars>>

----------------------------------------------------------------------------
(* MultiplePackages: the object is its __dict__                             *)

\* the outcome of an access by name through the collection
Access(r, op, name, arg) ==
    [op |-> op, raised |-> r.raised, value |-> r.value, name |-> name, arg |-> arg]

\* [ret, obj]: obj is NoObject when __init__ raises
MultiplePackages_init(pkgs) ==
    IF pkgs = <<>>
    THEN [ret |-> Raised("MultiplePackages.__init__", "StopIteration", None),
          obj |-> NoObject]
    ELSE [ret |-> Returned("MultiplePackages.__init__", None),
          obj |-> [packages |-> pkgs, _first_package |-> pkgs[1].key]]

AmbiguousGet(name) ==
    "It is ambiguous to get " \o name
        \o ": there is more than one package in the config."

AmbiguousSet(name) ==
    "It is ambiguous to set " \o name
        \o ": there is more than one package in the config."

\* the package packages[_first_package], or the KeyError of the subscript
first_package(self) ==
    IF self._first_package \in Keys(self.packages)
    THEN Returned("__getitem__", dict_get(self.packages, self._first_package))
    ELSE Raised("__getitem__", "KeyError", self._first_package)

__getattr___ForwardToFirst(self, name) ==
    IF name \in DOMAIN self THEN Returned("__getattr__", self[name])
    ELSE getattr(first_package(self).value, name)

__getattr__(self, name) ==
    IF name \in DOMAIN self THEN Returned("__getattr__", self[name])
    ELSE IF Len(self.packages) = 1
    THEN IF first_package(self).raised = "none"
         THEN getattr(first_package(self).value, name)
         ELSE first_package(self)
    ELSE Raised("__getattr__", "AttributeError", AmbiguousGet(name))

\* [ret, obj]
__setattr__(self, name, value) ==
    IF name \in DOMAIN self \/ "packages" \notin DOMAIN self
    THEN [ret |-> Returned("__setattr__", None),
          obj |-> [n \in DOMAIN self \cup {name} |->
                      IF n = name THEN value ELSE self[n]]]
    ELSE IF Len(self.packages) = 1
    THEN IF first_package(self).raised = "none"
         THEN LET r == setattr(first_package(self).value, name, value)
              IN  [ret |-> r.ret,
                   obj |-> [self EXCEPT !.packages =
                               dict_put(@, self._first_package, r.obj)]]
         ELSE [ret |-> first_package(self), obj |-> self]
    ELSE [ret |-> Raised("__setattr__", "AttributeError", AmbiguousSet(name)),
          obj |-> self]

\* package_config.upstream_package_name or ""
OrEmptyString(s) == IF Truthy(s) THEN s ELSE ""

get_package_names_as_env(self) ==
    IF Len(self.packages) = 1
    THEN IF self.packages # <<>>
         THEN Returned("get_package_names_as_env",
                  [PACKIT_CONFIG_PACKAGE_NAME |-> self.packages[1].key,
                   PACKIT_UPSTREAM_PACKAGE_NAME |->
                       OrEmptyString(self.packages[1].value.upstream_package_name),
                   PACKIT_DOWNSTREAM_PACKAGE_NAME |->
                       OrEmptyString(self.packages[1].value.downstream_package_name)])
         ELSE Raised("get_package_names_as_env", "PackitConfigException",
                     "No packages in config")
    ELSE Raised("get_package_names_as_env", "PackitConfigException",
                "Multiple packages in config")

MPConstruct ==
    /\ collection = NoObject
    /\ ret.op = "start"
    /\ LET r == MultiplePackages_init(packages)
       IN  /\ ret' = r.ret
           /\ collection' = r.obj
    /\ UNCHANGED <<packages, cfgvars>>

\* collection.<name>
GetAttr(name) ==
    /\ collection # NoObject
    /\ ret' = Access(__getattr__(collection, name), "__getattr__", name, None)
    /\ UNCHANGED <<packages, collection, cfgvars>>

\* collection.<name> = value
SetAttr(name, value) ==
    /\ collection # NoObject
    /\ LET r == __setattr__(collection, name, value)
       IN  /\ ret' = Access(r.ret, "__setattr__", name, value)
           /\ collection' = r.obj
    /\ UNCHANGED <<packages, cfgvars>>

GetPackageNamesAsEnv ==
    /\ collection # NoObject
    /\ ret' = get_package_names_as_env(collection)
    /\ UNCHANGED <<packages, collection, cfgvars>>

----------------------------------------------------------------------------
(* Inputs *)

\* longest synced_files / files_to_sync list supplied
MaxItems == 2

SeqsUpTo(S, n) == UNION {[1..k -> S] : k \in 0..n}

SyncItems ==
    {SyncFilesItem(<<"rpm/a.spec">>, "a.spec"),
     SyncFilesItem(<<"README.md", ".packit.yaml">>, ".")}

OptionalLists == {NoneList} \cup {SomeList(l) : l \in SeqsUpTo(SyncItems, MaxItems)}

EnvValues ==
    [DISTGIT_URL |-> {None, "https://env.example/"},
     DISTGIT_NAMESPACE |-> {None, "envns"}]

Environs == [DISTGIT_URL : EnvValues.DISTGIT_URL,
             DISTGIT_NAMESPACE : EnvValues.DISTGIT_NAMESPACE]

NoEnviron == [DISTGIT_URL |-> None, DISTGIT_NAMESPACE |-> None]

PkgTools == {None, "", "fedpkg", "centpkg", "nopkg"}

PackageNames == {None, "", "foo"}

\* configurations that differ in what decides the dist-git instance
ArgsDistGit ==
    {[DefaultArgs EXCEPT !.dist_git_base_url = b, !.dist_git_namespace = n,
                         !.pkg_tool = t, !.downstream_package_name = "foo",
                         !.specfile_path = "rpm/a.spec"] :
        b \in {None, "https://example/"}, n \in {None, "rpms"}, t \in PkgTools}

\* configurations that differ in what decides the package URLs
ArgsUrl ==
    {[DefaultArgs EXCEPT !.dist_git_base_url = b, !.dist_git_namespace = n,
                         !.downstream_package_name = d,
                         !.downstream_project_url = u] :
        b \in {None, "https://example/"}, n \in {None, "rpms", "rpms/"},
        d \in PackageNames, u \in {None, "", "https://explicit.example/foo.git"}}

\* configurations that differ in what decides the files to sync
ArgsSync ==
    {[DefaultArgs EXCEPT !.synced_files = o, !.files_to_sync = f,
                         !.specfile_path = s, !.config_file_path = c,
                         !.downstream_package_name = d] :
        o \in OptionalLists, f \in OptionalLists,
        s \in {None, "rpm/a.spec", ".packit.yaml"}, c \in {None, ".packit.yaml"},
        d \in {None, "foo"}}

\* longest list of target names supplied
MaxTargets == 2

TargetNames == {"fedora-39", "epel-9"}

\* the options of a target, each a dict
TargetOptions == {<<>>, <<[key |-> "additional_repos", value |-> "repo"]>>}

\* the dicts over TargetNames, in every insertion order
TargetDicts ==
    {d \in SeqsUpTo([key : TargetNames, value : TargetOptions],
                     Cardinality(TargetNames)) :
        \A i, j \in 1..Len(d) : i # j => d[i].key # d[j].key}

TargetArgs ==
    {NoTargets} \cup {TargetList(l) : l \in SeqsUpTo(TargetNames, MaxTargets)}
                \cup {TargetDict(d) : d \in TargetDicts}

SpecSourceIds ==
    {"Source0", "Source17", "Patch", "Source007", "1a2", "a12b3", "Source2b", ""}

\* configurations that differ in the targets and the spec source id
ArgsFields ==
    {[DefaultArgs EXCEPT !._targets = t, !.spec_source_id = s] :
        t \in TargetArgs, s \in SpecSourceIds}

\* most packages in a collection
MaxPackages == 2

\* the i-th key of a supplied mapping
KeyOf(i) == IF i = 1 THEN "pkg" ELSE "pkg" \o ToString(i)

PackageConfigs ==
    {NewConfig([DefaultArgs EXCEPT !.upstream_package_name = u,
                                   !.downstream_package_name = d],
               DISTGIT_INSTANCES["fedpkg"]) :
        u \in {None, "up"}, d \in {None, "foo"}}

PackageMappings ==
    UNION {{[i \in 1..n |-> [key |-> KeyOf(i), value |-> f[i]]] :
                f \in [1..n -> PackageConfigs]} : n \in 0..MaxPackages}

\* names read and written through the collection; packages itself is written
\* by __init__ alone (the set of keys does not change after construction)
ReadNames ==
    {"packages", "_first_package", "upstream_package_name", "dist_git_base_url",
     "custom", "no_such_attribute"}

WriteNames == {"upstream_package_name", "dist_git_base_url", "custom"}

InitWith(A, E) ==
    /\ args \in A
    /\ environ \in E
    /\ config = NoObject
    /\ ret = Returned("start", None)
    /\ firstUrl = [seen |-> FALSE, value |-> None]
    /\ packages = <<>>
    /\ collection = NoObject

Init == InitWith(ArgsDistGit, Environs)

InitUrl == InitWith(ArgsUrl, {NoEnviron})

InitSync == InitWith(ArgsSync, {NoEnviron})

InitFields == InitWith(ArgsFields, {NoEnviron})

Next ==
    \/ Construct
    \/ ReadDistGitBaseUrl
    \/ ReadDistGitNamespace
    \/ ReadDistGitPackageUrl
    \/ ReadDownstreamProjectUrl
    \/ ReadFilesToSync
    \/ GetAllFilesToSync
    \/ ReadTargetsDict
    \/ ReadTargets
    \/ ReadSpecSourceIdNumber
    \/ \E v \in {None, "bar"} : SetDownstreamPackageName(v)
    \/ \E v \in {None, "centpkg", "nopkg"} : SetPkgTool(v)
    \/ \E name \in DOMAIN EnvValues : \E v \in EnvValues[name] : SetEnv(name, v)

NextUrl ==
    \/ Construct
    \/ ReadDistGitPackageUrl
    \/ ReadDownstreamProjectUrl
    \/ \E v \in PackageNames \cup {"bar"} : SetDownstreamPackageName(v)

NextSync ==
    \/ Construct
    \/ ReadFilesToSync
    \/ GetAllFilesToSync

NextFields ==
    \/ Construct
    \/ ReadTargetsDict
    \/ ReadTargets
    \/ \E k \in TargetNames : \E v \in TargetOptions : TargetsDictSetItem(k, v)
    \/ \E k \in TargetNames : TargetsDictDelItem(k)
    \/ ReadSpecSourceIdNumber

\* every operation on the object itself, on configurations that differ in the
\* dist-git inputs
Spec == Init /\ [][Next]_vars

\* reads of the two URL properties interleaved with changes of the package name
SpecUrl == InitUrl /\ [][NextUrl]_vars

\* the file-sync operations over the supplied lists
SpecSync == InitSync /\ [][NextSync]_vars

\* the targets, with writes through the mapping targets_dict returns, and the
\* spec source id
SpecFields == InitFields /\ [][NextFields]_vars

InitMP ==
    /\ packages \in PackageMappings
    /\ collection = NoObject
    /\ ret = Returned("start", None)
    /\ args = DefaultArgs
    /\ environ = NoEnviron
    /\ config = NoObject
    /\ firstUrl = [seen |-> FALSE, value |-> None]

NextMP ==
    \/ MPConstruct
    \/ \E name \in ReadNames : GetAttr(name)
    \/ \E name \in WriteNames : \E value \in {None, "set"} : SetAttr(name, value)
    \/ \E k \in Keys(packages) : SetAttr("_first_package", k)
    \/ GetPackageNamesAsEnv

\* the operations of a MultiplePackages over collections of 0..MaxPackages packages
SpecMP == InitMP /\ [][NextMP]_vars

----------------------------------------------------------------------------
(* Properties *)

\* the list the file-sync options resolve to, as supplied at construction
SuppliedFiles ==
    IF ~args.files_to_sync.is_none THEN args.files_to_sync.list
    ELSE OrEmpty(args.synced_files)

NoDuplicates(seq) == \A i, j \in 1..Len(seq) : i # j => seq[i] # seq[j]

\* C1: right after construction the dist-git instance follows the precedence:
\* an explicit base_url (with the given namespace) wins over pkg_tool and the
\* environment; without it a pkg_tool of the registry gives the registry's
\* entry; without a tool a set DISTGIT_URL (with DISTGIT_NAMESPACE) is used;
\* with none of them the result is the registry's "fedpkg" entry.
C1_Precedence ==
    (ret.op = "__init__" /\ ret.raised = "none") =>
        LET b == args.dist_git_base_url
            t == args.pkg_tool
            i == config.dist_git_instance
        IN  /\ b # None => i = from_url_and_namespace(b, args.dist_git_namespace)
            /\ (b = None /\ t \in DOMAIN DISTGIT_INSTANCES)
                   => i = DISTGIT_INSTANCES[t]
            /\ (b = None /\ ~Truthy(t) /\ environ.DISTGIT_URL # None)
                   => i = from_url_and_namespace(environ.DISTGIT_URL,
                                                 environ.DISTGIT_NAMESPACE)
            /\ (b = None /\ ~Truthy(t) /\ environ.DISTGIT_URL = None)
                   => i = DISTGIT_INSTANCES["fedpkg"]

\* an explicit base URL won although a registry tool and DISTGIT_URL were set
C1_Witness ==
    /\ ret.op = "__init__"
    /\ ret.raised = "none"
    /\ args.dist_git_base_url = "https://example/"
    /\ args.pkg_tool = "centpkg"
    /\ environ.DISTGIT_URL # None
    /\ config.dist_git_instance.url = "https://example/"

\* C2: files_to_sync returns the new-style list whenever it was supplied (even
\* empty, even beside a non-empty synced_files); otherwise the synced_files
\* list of the object when non-empty (it starts with the supplied entries),
\* and otherwise an empty sequence.
C2_FilesToSync ==
    ret.op = "files_to_sync" =>
        /\ ~args.files_to_sync.is_none => ret.value = args.files_to_sync.list
        /\ (args.files_to_sync.is_none /\ OrEmpty(args.synced_files) # <<>>)
               => /\ ret.value = config.synced_files
                  /\ Len(ret.value) >= Len(args.synced_files.list)
                  /\ SubSeq(ret.value, 1, Len(args.synced_files.list))
                         = args.synced_files.list
        /\ (args.files_to_sync.is_none /\ OrEmpty(args.synced_files) = <<>>)
               => ret.value = <<>>

\* files_to_sync=[] supplied beside a non-empty synced_files: the read gives []
C2_Witness ==
    /\ ret.op = "files_to_sync"
    /\ args.files_to_sync = SomeList(<<>>)
    /\ ~args.synced_files.is_none
    /\ args.synced_files.list # <<>>
    /\ ret.value = <<>>

\* C3 as claimed: every read of downstream_project_url after the first returns
\* what the first read returned.
C3_AsClaimed ==
    (ret.op = "downstream_project_url" /\ firstUrl.seen)
        => ret.value = firstUrl.value

\* C3: once a read of downstream_project_url has returned a non-empty value,
\* every later read returns that value, whatever downstream_package_name has
\* become since.
C3_CachedOnceNonEmpty ==
    (ret.op = "downstream_project_url" /\ firstUrl.seen /\ Truthy(firstUrl.value))
        => ret.value = firstUrl.value

\* no explicit URL; the first read computed foo's URL, the name was then
\* changed to "bar", and the read after that still returns foo's URL
C3_Witness ==
    /\ ret.op = "downstream_project_url"
    /\ args.downstream_project_url = None
    /\ args.downstream_package_name = "foo"
    /\ config.downstream_package_name = "bar"
    /\ Truthy(firstUrl.value)
    /\ ret.value = firstUrl.value

C5_NewStyleUnchanged ==
    ret.op = "get_all_files_to_sync" =>
        /\ ~args.files_to_sync.is_none
               => /\ ret.raised = "none"
                  /\ ret.value = args.files_to_sync.list
                  /\ config._files_to_sync = args.files_to_sync.list
                  /\ config.synced_files = OrEmpty(args.synced_files)
        /\ (ret.raised = "none" /\ ret.value # SuppliedFiles)
               => args.files_to_sync.is_none

\* files_to_sync=[] with both paths set: the call returns []
C5_Witness ==
    /\ ret.op = "get_all_files_to_sync"
    /\ args.files_to_sync = SomeList(<<>>)
    /\ args.specfile_path = "rpm/a.spec"
    /\ args.config_file_path = ".packit.yaml"
    /\ ret.value = <<>>

\* the sole package of a one-package collection
SolePackage(c) == c.packages[1].value

\* C6: for a name that is not an attribute of the collection itself, a read
\* through a one-package collection has the outcome of the same read on the
\* sole package, and a write is the same write on the sole package (what was
\* written is then what the package reads back) while the collection's own
\* attributes stay as they are; on a collection of more than one package both
\* raise the ambiguity AttributeError naming the attribute, and the write
\* leaves the collection and every package unchanged.
C6_Forwarding ==
    /\ [](  (collection # NoObject /\ ret.op = "__getattr__"
                 /\ ret.name \notin DOMAIN collection)
            => IF Len(collection.packages) = 1
               THEN /\ ret.raised = getattr(SolePackage(collection), ret.name).raised
                    /\ ret.value = getattr(SolePackage(collection), ret.name).value
               ELSE /\ Len(collection.packages) > 1
                    /\ ret.raised = "AttributeError"
                    /\ ret.value = AmbiguousGet(ret.name))
    /\ [](  (collection # NoObject /\ ret.op = "__setattr__"
                 /\ ret.name \notin DOMAIN collection)
            => IF Len(collection.packages) = 1
               THEN ret.raised = "none"
                        => getattr(SolePackage(collection), ret.name)
                               = Returned("getattr", ret.arg)
               ELSE /\ Len(collection.packages) > 1
                    /\ ret.raised = "AttributeError"
                    /\ ret.value = AmbiguousSet(ret.name))
    /\ [][  (collection # NoObject /\ ret'.op = "__setattr__"
                 /\ ret'.name \notin DOMAIN collection)
            => /\ DOMAIN collection' = DOMAIN collection
               /\ collection'._first_package = collection._first_package
               /\ Keys(collection'.packages) = Keys(collection.packages)
               /\ IF Len(collection.packages) = 1
                  THEN LET r == setattr(SolePackage(collection), ret'.name, ret'.arg)
                       IN  /\ SolePackage(collection') = r.obj
                           /\ ret'.raised = r.ret.raised
                  ELSE collection' = collection ]_vars

\* a new attribute written through a one-package collection sits on the package
C6_Witness ==
    /\ collection # NoObject
    /\ Len(collection.packages) = 1
    /\ ret.op = "__setattr__"
    /\ ret.name = "custom"
    /\ ret.raised = "none"
    /\ "custom" \in DOMAIN SolePackage(collection)
    /\ SolePackage(collection)["custom"] = "set"
    /\ "custom" \notin DOMAIN collection

\* C7 as claimed: one package gives the three-entry mapping; zero packages or
\* more than one end in a PackitConfigException.
C7_AsClaimed ==
    /\ (ret.op = "get_package_names_as_env" /\ Len(collection.packages) = 1)
           => ret = Returned("get_package_names_as_env",
                  [PACKIT_CONFIG_PACKAGE_NAME |-> collection.packages[1].key,
                   PACKIT_UPSTREAM_PACKAGE_NAME |->
                       OrEmptyString(SolePackage(collection).upstream_package_name),
                   PACKIT_DOWNSTREAM_PACKAGE_NAME |->
                       OrEmptyString(SolePackage(collection).downstream_package_name)])
    /\ (ret.op = "get_package_names_as_env" /\ Len(collection.packages) > 1)
           => ret.raised = "PackitConfigException"
    /\ (packages = <<>> /\ ret.raised # "none")
           => ret.raised = "PackitConfigException"

\* C8 as claimed: null exactly without a package name, else the concatenation
\* base, namespace, "/", name, ".git"; and base "https://example/", namespace
\* "rpms/", name "foo" give "https://example/rpms/foo.git".
C8_AsClaimed ==
    ret.op = "dist_git_package_url" =>
        LET i == config.dist_git_instance
            d == config.downstream_package_name
        IN  /\ ret.value = None <=> ~Truthy(d)
            /\ Truthy(d) => ret.value = i.url \o Fmt(i.namespace) \o "/" \o d \o ".git"
            /\ (i = DistGitInstance("https://example/", "rpms/") /\ d = "foo")
                   => ret.value = "https://example/rpms/foo.git"

\* C8: dist_git_package_url is null exactly when the current
\* downstream_package_name is unset or empty, and otherwise the concatenation
\* base URL, namespace (a null namespace as the text "None"), "/", name,
\* ".git": base "https://example/", namespace "rpms", name "foo" give
\* "https://example/rpms/foo.git", and namespace "rpms/" gives
\* "https://example/rpms//foo.git".
C8_PackageUrl ==
    ret.op = "dist_git_package_url" =>
        LET i == config.dist_git_instance
            d == config.downstream_package_name
        IN  /\ ret.value = None <=> ~Truthy(d)
            /\ Truthy(d) => ret.value = i.url \o Fmt(i.namespace) \o "/" \o d \o ".git"
            /\ (i = DistGitInstance("https://example/", "rpms") /\ d = "foo")
                   => ret.value = "https://example/rpms/foo.git"
            /\ (i = DistGitInstance("https://example/", "rpms/") /\ d = "foo")
                   => ret.value = "https://example/rpms//foo.git"

\* the name was set to "foo" after construction and the URL is built from it
C8_Witness ==
    /\ ret.op = "dist_git_package_url"
    /\ args.downstream_package_name = None
    /\ config.downstream_package_name = "foo"
    /\ config.dist_git_instance = DistGitInstance("https://example/", "rpms")
    /\ ret.value = "https://example/rpms/foo.git"

C10_ResolvedOnce ==
    [][ config # NoObject
        => /\ config'.dist_git_instance = config.dist_git_instance
           /\ ret'.op = "dist_git_base_url"
                  => ret'.value = config.dist_git_instance.url
           /\ ret'.op = "dist_git_namespace"
                  => ret'.value = config.dist_git_instance.namespace ]_vars

\* built with no base URL, tool or DISTGIT_URL (the "fedpkg" entry); pkg_tool
\* and DISTGIT_URL were set afterwards and the base URL read is still Fedora's
C10_Witness ==
    /\ config # NoObject
    /\ args.dist_git_base_url = None
    /\ args.pkg_tool = None
    /\ config.pkg_tool = "centpkg"
    /\ environ.DISTGIT_URL # None
    /\ config.dist_git_instance = DISTGIT_INSTANCES["fedpkg"]
    /\ ret.op = "dist_git_base_url"
    /\ ret.value = "https://src.fedoraproject.org/"

\* the target names supplied at construction
SuppliedTargetNames ==
    IF args._targets.kind = "list"
    THEN {args._targets.list[i] : i \in 1..Len(args._targets.list)}
    ELSE {args._targets.dict[i].key : i \in 1..Len(args._targets.dict)}

\* C11: in every state of a constructed configuration targets is the key set
\* of targets_dict, and a read of targets returns the keys the mapping has
\* then, writes through the mapping targets_dict returned included; right
\* after construction the mapping is: for a list of names, each name once
\* mapped to empty options; for a mapping, that mapping; for None, empty.
C11_TargetsAreKeys ==
    /\ config # NoObject =>
            /\ targets(config) = {targets_dict(config)[i].key :
                                      i \in 1..Len(targets_dict(config))}
            /\ NoDuplicates([i \in 1..Len(targets_dict(config)) |->
                                 targets_dict(config)[i].key])
    /\ ret.op = "targets" =>
            ret.value = {config._targets[i].key : i \in 1..Len(config._targets)}
    /\ (ret.op = "__init__" /\ ret.raised = "none") =>
            /\ targets(config) = SuppliedTargetNames
            /\ args._targets.kind = "list" =>
                    \A i \in 1..Len(targets_dict(config)) :
                        targets_dict(config)[i].value = <<>>
            /\ args._targets.kind = "dict" =>
                    targets_dict(config) = args._targets.dict
            /\ args._targets.kind = "none" => targets_dict(config) = <<>>

\* a list with a repeated name was supplied, the returned mapping was written
\* to, and the read of targets that follows returns other names than supplied
C11_Witness ==
    /\ ret.op = "targets"
    /\ args._targets = TargetList(<<"epel-9", "epel-9">>)
    /\ ret.value = {"fedora-39"}

\* the positions of spec_source_id that hold a digit
DigitPositions(s) ==
    {i \in 1..Len(s) : SubSeq(s, i, i) \in {"0", "1", "2", "3", "4", "5", "6", "7", "8", "9"}}

\* the decimal value of the digits of s at positions a..b
RECURSIVE DecimalValue(_, _, _)
DecimalValue(s, a, b) ==
    IF a > b THEN 0
    ELSE LET v == CHOOSE n \in 0..9 : ToString(n) = SubSeq(s, b, b)
         IN  v + 10 * DecimalValue(s, a, b - 1)

\* the first run of digits of s read as an integer, 0 when s has no digit
FirstRunValue(s) ==
    IF DigitPositions(s) = {} THEN 0
    ELSE LET a == CHOOSE i \in DigitPositions(s) :
                      \A j \in DigitPositions(s) : i <= j
             b == CHOOSE i \in DigitPositions(s) :
                      /\ a <= i
                      /\ a..i \subseteq DigitPositions(s)
                      /\ i + 1 \notin DigitPositions(s)
         IN  DecimalValue(s, a, b)

\* C12: spec_source_id_number returns the first run of digits of spec_source_id
\* read as an integer, and 0 when spec_source_id has no digit: "Source0" gives
\* 0, "Source17" gives 17, "Patch" gives 0.
C12_FirstDigitRun ==
    ret.op = "spec_source_id_number" =>
        /\ ret.raised = "none"
        /\ ret.value = FirstRunValue(config.spec_source_id)
        /\ config.spec_source_id = "Source0" => ret.value = 0
        /\ config.spec_source_id = "Source17" => ret.value = 17
        /\ config.spec_source_id = "Patch" => ret.value = 0

\* a read on an id with two runs of digits, the first of more than one digit
C12_Witness ==
    /\ ret.op = "spec_source_id_number"
    /\ config.spec_source_id = "a12b3"
    /\ ret.value = 12

\* the configuration as __init__ built it, before any call
AsConstructed == NewConfig(args, config.dist_git_instance)

\* every call of get_all_files_to_sync returns (or raises) what the first
\* call, made on the configuration as constructed, does
SameAsFirstCall ==
    ret.op = "get_all_files_to_sync" =>
        ret = get_all_files_to_sync(AsConstructed).ret

\* what files_to_sync returns is what it returned before any call of
\* get_all_files_to_sync
FilesToSyncUnchanged ==
    ret.op = "files_to_sync" => ret.value = files_to_sync(AsConstructed)

\* C13: with no field assigned in between, every call of
\* get_all_files_to_sync returns the same sequence of entries as the first
\* one, and a read of files_to_sync after a call returns what a read before
\* it returned, also in legacy mode with a non-empty synced_files.
C13_AsClaimed == SameAsFirstCall /\ FilesToSyncUnchanged

====
